---- MODULE Spec2Model ----
(***************************************************************************)
(* The SUS kernel (src/bin/sus-kernel): one invocation of main, which      *)
(* builds a Request and calls Request::service, which folds the verifiers' *)
(* results, logs the attempt, and hands the request to the runner exec,    *)
(* which changes the process identity and replaces the process image.      *)
(***************************************************************************)
EXTENDS Integers, Sequences, FiniteSets, TLC

\* ------------------------------------------------------------------ bounds
\* Largest user id of the model: Uid values are 0..MaxUid.
MaxUid == 1
\* Largest group id of the model: Gid values are 0..MaxGid.
MaxGid == 2
\* Longest verifier list a Request is built with.
MaxVerifiers == 2
\* Most user specs of a policy source.
MaxUserSpecs == 2
\* Longest list of principals or of commands in a policy source.
MaxListLen == 2

\* ----------------------------------------------------------- build options
\* The kernel is modelled as built with the "log" feature: Request has a
\* logger and service calls it (request.rs, #[cfg(feature = "log")]).
LogFeature == TRUE

\* ------------------------------------------------------------------- values
Uids == 0..MaxUid
Gids == 0..MaxGid

\* struct Permission {uid, primary_gid, secondary_gids}
Permission == [uid : Uids, primary_gid : Gids, secondary_gids : SUBSET Gids]

\* The current permissions are the real ids of the calling process.  They do
\* not steer service or exec (they are only handed to the verifiers and to
\* the logger), so one calling user per uid is enumerated.
CurrentPermissions ==
    {p \in Permission : p.primary_gid = p.uid /\ p.secondary_gids = {p.uid}}

\* struct Executable {path, args}; the factory rejects an empty args vector.
Executables ==
    { [path |-> "/bin/ls", args |-> <<"ls">>],
      [path |-> "/bin/rm", args |-> <<"rm", "-f">>] }

\* The environment of the kernel process: the front-end starts the kernel
\* with whatever environment the calling user has.
Environments == {<<>>, <<"LD_PRELOAD=/tmp/x.so", "PATH=/tmp">>}

\* VerifyResult = Result<(), VerifyError>: "Ok" or the name of the error.
VerifyErrors == {"NotAllowed", "NotFound", "Malformed"}
VerifyResults == {"Ok"} \cup VerifyErrors

\* RunError: one variant per system call of exec.
RunErrors == {"SetSecondaryGID", "SetPrimaryGID", "SetUID", "Execute"}

\* A verifier is modelled by the result it returns for this request.
VerifierLists == UNION {[1..n -> VerifyResults] : n \in 0..MaxVerifiers}

\* The requests enumerated, as pairs of a verifier list and the requested
\* permissions: every verifier list with every requested identity that has no
\* secondary group, and every requested identity with every list of at most
\* one verifier.  (The verifiers' results decide what service does and the
\* requested permissions decide what exec does; neither reads the other.)
RequestedWithoutSecondary == {p \in Permission : p.secondary_gids = {}}
ShortVerifierLists == {v \in VerifierLists : Len(v) <= 1}
Requests ==
    (VerifierLists \X RequestedWithoutSecondary)
        \cup (ShortVerifierLists \X Permission)

\* ---------------------------------------------------------------- helpers
\* A fold that ANDs instead: an Ok accumulator is replaced by the argument, an
\* Err accumulator is kept (Result::and).
ResultAnd(r, other) == IF r = "Ok" THEN other ELSE r

\* A fold in which the last verifier alone decides.
ResultLast(r, other) == other

\* Result::or: an Ok accumulator is kept, an Err accumulator is replaced by
\* the argument.
ResultOr(r, other) == IF r = "Ok" THEN r ELSE other

\* The loop of service over a verifier list, from the accumulator acc.
RECURSIVE FoldVerifiers(_, _)
FoldVerifiers(acc, vs) ==
    IF vs = <<>> THEN acc
    ELSE FoldVerifiers(ResultOr(acc, Head(vs)), Tail(vs))

\* A fold that starts from allow instead of deny.
InitialVerifyResultOk == "Ok"

\* The accumulator service starts the fold with.
InitialVerifyResult == "NotAllowed"

\* The sequences that list every element of the set s exactly once: the
\* orders in which iterating a HashSet may yield its elements.
IterationOrders(s) ==
    {f \in [1..Cardinality(s) -> s] : \A x \in s : \E i \in DOMAIN f : f[i] = x}

\* Insert x into the ascending sequence sorted, after every element that is
\* not larger (the sort is stable).
RECURSIVE InsertSorted(_, _)
InsertSorted(x, sorted) ==
    IF sorted = <<>> THEN <<x>>
    ELSE IF x < Head(sorted) THEN <<x>> \o sorted
    ELSE <<Head(sorted)>> \o InsertSorted(x, Tail(sorted))

\* The vector left in the order the HashSet yielded it.
SortByKeySkipped(vec) == vec

\* Vec::sort_by_key(|g| g.as_raw()): ascending numeric order.
RECURSIVE SortByKey(_)
SortByKey(vec) ==
    IF vec = <<>> THEN <<>>
    ELSE InsertSorted(vec[Len(vec)], SortByKey(SubSeq(vec, 1, Len(vec) - 1)))

\* new_sgid_set: the secondary gids with the primary gid inserted.
NewSgidSet(perm) == perm.secondary_gids \cup {perm.primary_gid}

\* The vectors exec may pass to setgroups for perm.
NewSgidVecs(perm) == {SortByKey(v) : v \in IterationOrders(NewSgidSet(perm))}

Range(seq) == {seq[i] : i \in DOMAIN seq}

\* ----------------------------------------------------------- policy values
\* The wildcard token of the policy source.
ALL == "ALL"

\* The user and group databases get_user_by_name and get_group_by_name read:
\* the names they resolve, with their ids.  Every other name is unknown.
Passwd == ("root" :> 0) @@ ("alice" :> 1)
Group == ("wheel" :> 1) @@ ("staff" :> 2)

\* get_uid_from_username, get_gid_from_groupname: an Option, as the set of at
\* most one id.
get_uid_from_username_or_root(username) ==
    IF username \in DOMAIN Passwd THEN {Passwd[username]} ELSE {0}
get_uid_from_username(username) ==
    IF username \in DOMAIN Passwd THEN {Passwd[username]} ELSE {}
get_gid_from_groupname(groupname) ==
    IF groupname \in DOMAIN Group THEN {Group[groupname]} ELSE {}

\* enum User {Username, Usergroup, Useralias}
Username(n) == [tag |-> "username", name |-> n]
Usergroup(n) == [tag |-> "usergroup", name |-> n]
Useralias(n) == [tag |-> "useralias", name |-> n]

\* enum Option {Setenv(bool), Authenticate(bool)}
PolicyOptions == [opt : {"setenv", "authenticate"}, on : BOOLEAN]

\* AllowedCmd::new(), Rule::new()
NewAllowedCmd ==
    [users |-> {}, allow_all_users |-> FALSE,
     groups |-> {}, allow_all_groups |-> FALSE,
     paths |-> {}, allow_all_cmds |-> FALSE, options |-> <<>>]
NewRule ==
    [users |-> {}, allow_all_users |-> FALSE,
     groups |-> {}, allow_all_groups |-> FALSE,
     allowed_cmds |-> <<>>, allow_all_cmds |-> FALSE]

\* An is_relevant that does not look at the secondary gids.
RuleIsRelevantPrimaryOnly(self, curr_perm) ==
    \/ curr_perm.uid \in self.users
    \/ curr_perm.primary_gid \in self.groups
    \/ self.allow_all_users
    \/ self.allow_all_groups

\* Rule::is_relevant(&self, curr_perm)
RuleIsRelevant(self, curr_perm) ==
    \/ curr_perm.uid \in self.users
    \/ curr_perm.primary_gid \in self.groups
    \/ ~(self.groups \cap curr_perm.secondary_gids = {})
    \/ self.allow_all_users
    \/ self.allow_all_groups

\* An is_relevant that does not look at allow_all_groups.
AllowedCmdIsRelevantUsersOnly(self, req_perm) ==
    \/ req_perm.uid \in self.users
    \/ req_perm.primary_gid \in self.groups
    \/ ~(self.groups \cap req_perm.secondary_gids = {})
    \/ self.allow_all_users

\* AllowedCmd::is_relevant(&self, req_perm)
AllowedCmdIsRelevant(self, req_perm) ==
    \/ req_perm.uid \in self.users
    \/ req_perm.primary_gid \in self.groups
    \/ ~(self.groups \cap req_perm.secondary_gids = {})
    \/ self.allow_all_users
    \/ self.allow_all_groups

\* A subject arm that looks the wildcard up like any other name.
AddSubjectUsernameLookupOnly(rule, username) ==
    [rule EXCEPT !.users = @ \cup get_uid_from_username(username)]

\* from_userspec, the arm of a Username in a subject list or in an alias.
AddSubjectUsername(rule, username) ==
    IF username = ALL THEN [rule EXCEPT !.allow_all_users = TRUE]
    ELSE [rule EXCEPT !.users = @ \cup get_uid_from_username(username)]

\* from_userspec, the arm of a Usergroup in a subject list.
AddSubjectUsergroup(rule, groupname) ==
    IF groupname = ALL THEN [rule EXCEPT !.allow_all_groups = TRUE]
    ELSE [rule EXCEPT !.groups = @ \cup get_gid_from_groupname(groupname)]

\* from_userspec, the loop over the members of an alias: only the Username
\* members are looked at.
RECURSIVE AddAliasMembers(_, _)
AddAliasMembers(rule, members) ==
    IF members = <<>> THEN rule
    ELSE LET user == Head(members)
         IN  AddAliasMembers(
                 IF user.tag = "username"
                 THEN AddSubjectUsername(rule, user.name)
                 ELSE rule,
                 Tail(members))

\* from_userspec, the loop over userspec.user_list.  useraliases[alias] is
\* read only for an alias of the table (see UserspecPanics).
RECURSIVE AddSubjects(_, _, _)
AddSubjects(rule, user_list, useraliases) ==
    IF user_list = <<>> THEN rule
    ELSE LET user == Head(user_list)
             next ==
                 CASE user.tag = "username" -> AddSubjectUsername(rule, user.name)
                   [] user.tag = "usergroup" -> AddSubjectUsergroup(rule, user.name)
                   [] user.tag = "useralias" ->
                          AddAliasMembers(rule, useraliases[user.name])
         IN  AddSubjects(next, Tail(user_list), useraliases)

\* from_userspec, the loop over cmd_spec.run_as_users: Username entries only.
RECURSIVE AddRunAsUsers(_, _)
AddRunAsUsers(allowed_cmd, run_as_users) ==
    IF run_as_users = <<>> THEN allowed_cmd
    ELSE LET runasuser == Head(run_as_users)
             next ==
                 IF runasuser.tag = "username"
                 THEN IF runasuser.name = ALL
                      THEN [allowed_cmd EXCEPT !.allow_all_users = TRUE]
                      ELSE [allowed_cmd EXCEPT
                              !.users = @ \cup get_uid_from_username(runasuser.name)]
                 ELSE allowed_cmd
         IN  AddRunAsUsers(next, Tail(run_as_users))

\* from_userspec, the loop over cmd_spec.run_as_groups: Usergroup entries
\* only; the wildcard sets allow_all_users.
RECURSIVE AddRunAsGroups(_, _)
AddRunAsGroups(allowed_cmd, run_as_groups) ==
    IF run_as_groups = <<>> THEN allowed_cmd
    ELSE LET runasgroup == Head(run_as_groups)
             next ==
                 IF runasgroup.tag = "usergroup"
                 THEN IF runasgroup.name = ALL
                      THEN [allowed_cmd EXCEPT !.allow_all_users = TRUE]
                      ELSE [allowed_cmd EXCEPT
                              !.groups = @ \cup get_gid_from_groupname(runasgroup.name)]
                 ELSE allowed_cmd
         IN  AddRunAsGroups(next, Tail(run_as_groups))

\* from_userspec, the loop over cmd_spec.commands.
RECURSIVE AddCommands(_, _)
AddCommands(allowed_cmd, commands) ==
    IF commands = <<>> THEN allowed_cmd
    ELSE LET path == Head(commands)
             next ==
                 IF path = ALL
                 THEN [allowed_cmd EXCEPT !.allow_all_cmds = TRUE]
                 ELSE [allowed_cmd EXCEPT !.paths = @ \cup {path}]
         IN  AddCommands(next, Tail(commands))

\* from_userspec, the body of the loop over userspec.cmd_specs: the
\* AllowedCmd built for one cmd_spec.
AllowedCmdOf(cmd_spec) ==
    AddCommands(
        [AddRunAsGroups(AddRunAsUsers(NewAllowedCmd, cmd_spec.run_as_users),
                        cmd_spec.run_as_groups)
            EXCEPT !.options = @ \o cmd_spec.options],
        cmd_spec.commands)

\* from_userspec, the loop over userspec.cmd_specs: one push per cmd_spec.
RECURSIVE AddCmdSpecs(_, _)
AddCmdSpecs(rule, cmd_specs) ==
    IF cmd_specs = <<>> THEN rule
    ELSE AddCmdSpecs(
             [rule EXCEPT !.allowed_cmds = Append(@, AllowedCmdOf(Head(cmd_specs)))],
             Tail(cmd_specs))

\* Indexing the alias table with an alias it does not have panics.
UserspecPanics(userspec, useraliases) ==
    \E i \in DOMAIN userspec.user_list :
        /\ userspec.user_list[i].tag = "useralias"
        /\ userspec.user_list[i].name \notin DOMAIN useraliases

\* Rule::from_userspec(userspec, useraliases), when it does not panic.
FromUserspec(userspec, useraliases) ==
    AddCmdSpecs(AddSubjects(NewRule, userspec.user_list, useraliases),
                userspec.cmd_specs)

\* ----------------------------------------------------------- policy inputs
SeqsUpTo(S, n) == UNION {[1..k -> S] : k \in 0..n}

\* The principals a subject list is made of: the wildcard, known and unknown
\* names, an alias of the table and one that is not in it.
SubjectEntries ==
    {Username(ALL), Username("root"), Username("alice"), Username("ghost"),
     Usergroup(ALL), Usergroup("wheel"), Usergroup("ghosts"),
     Useralias("ADMINS"), Useralias("NOBODY")}
RunAsUserEntries ==
    {Username(ALL), Username("root"), Username("ghost"), Usergroup("wheel")}
RunAsGroupEntries ==
    {Usergroup(ALL), Usergroup("staff"), Usergroup("ghosts"), Username("root")}
AliasEntries ==
    {Username(ALL), Username("alice"), Username("ghost"), Usergroup("wheel"),
     Useralias("ADMINS")}
CommandPaths == {ALL, "/bin/ls", "/bin/rm"}
OptionLists ==
    {<<>>, <<[opt |-> "setenv", on |-> TRUE]>>,
     <<[opt |-> "authenticate", on |-> FALSE], [opt |-> "setenv", on |-> TRUE]>>}

\* struct CmdSpec
CmdSpec(run_as_users, run_as_groups, options, commands) ==
    [run_as_users |-> run_as_users, run_as_groups |-> run_as_groups,
     options |-> options, commands |-> commands]

\* struct UserSpec; the host list is not read by the kernel.
UserSpec(user_list, cmd_specs) ==
    [user_list |-> user_list, host_list |-> <<ALL>>, cmd_specs |-> cmd_specs]

\* The command specs enumerated: every run-as-user list, every run-as-group
\* list, and every command list with every option list.
WideCmdSpecs ==
    {CmdSpec(l, <<>>, <<>>, <<"/bin/ls">>) :
        l \in SeqsUpTo(RunAsUserEntries, MaxListLen)}
    \cup {CmdSpec(u, l, <<>>, <<"/bin/ls">>) :
        u \in {<<>>, <<Username("root")>>},
        l \in SeqsUpTo(RunAsGroupEntries, MaxListLen)}
    \cup {CmdSpec(<<Username(ALL)>>, <<>>, o, l) :
        o \in OptionLists, l \in SeqsUpTo(CommandPaths, MaxListLen)}

\* The user specs enumerated one at a time: every subject list, and every
\* command spec above.
WideUserSpecs ==
    {UserSpec(l, <<>>) : l \in SeqsUpTo(SubjectEntries, MaxListLen)}
    \cup {UserSpec(<<Username("alice")>>, <<c>>) : c \in WideCmdSpecs}

\* The user specs policies of several specs are made of.
SampleUserSpecs ==
    { UserSpec(<<Username("alice")>>,
               <<CmdSpec(<<Username(ALL)>>, <<>>, <<>>, <<"/bin/ls">>)>>),
      UserSpec(<<Username(ALL)>>,
               <<CmdSpec(<<Username(ALL)>>, <<>>, <<>>, <<ALL>>)>>),
      UserSpec(<<Useralias("ADMINS")>>,
               <<CmdSpec(<<Username("root")>>, <<>>, <<>>, <<"/bin/ls">>),
                 CmdSpec(<<Username(ALL)>>, <<>>, <<>>, <<"/bin/rm">>)>>),
      UserSpec(<<Usergroup("wheel"), Username("ghost")>>,
               <<CmdSpec(<<Username("root")>>, <<Usergroup("staff")>>,
                         <<[opt |-> "setenv", on |-> TRUE]>>, <<"/bin/rm">>)>>),
      UserSpec(<<Useralias("NOBODY")>>,
               <<CmdSpec(<<Username(ALL)>>, <<>>, <<>>, <<"/bin/ls">>)>>) }

\* The alias tables ("User_Aliases").
DefaultAliases == "ADMINS" :> <<Username("root"), Username("alice")>>
WideAliasTables ==
    {"ADMINS" :> m : m \in SeqsUpTo(AliasEntries, MaxListLen)}

\* struct Sudoers, with whether the source decodes into it at all.
Sudoers(user_aliases, user_specs) ==
    [decodes |-> TRUE, user_aliases |-> user_aliases, user_specs |-> user_specs]
Undecodable == [decodes |-> FALSE, user_aliases |-> <<>>, user_specs |-> <<>>]
NoSudoers == Undecodable

\* The sources with one user spec.
WideSources ==
    {Sudoers(DefaultAliases, <<u>>) : u \in WideUserSpecs}
    \cup {Sudoers(t, <<UserSpec(<<Useralias("ADMINS")>>, <<>>)>>) :
            t \in WideAliasTables}

\* The sources with several user specs, and the source that does not decode.
NarrowSources ==
    {Sudoers(DefaultAliases, l) : l \in SeqsUpTo(SampleUserSpecs, MaxUserSpecs)}
    \cup {Undecodable}

\* No is_relevant call has been made.
NotAsked == [rule |-> {}, cmd |-> {}]

\* ------------------------------------------------------------------ state
VARIABLES
    executable,             \* Request.executable
    current_permissions,    \* Request.current_permissions
    requested_permissions,  \* Request.requested_permissions
    verifiers,              \* Request.verifiers
    pc,                     \* where the invocation is
    vi,                     \* index of the next verifier of the for loop
    res,                    \* the accumulator res of the fold
    trace,                  \* the calls made so far, in order
    ret,                    \* what service returned
    ident,                  \* the identity of the process
    image,                  \* the program the process runs
    environ,                \* the environment the kernel was started with
    sudoers,                \* the policy source (struct Sudoers, once decoded)
    rules,                  \* ParsedSudoers.rules, as far as built
    relevant,               \* what the is_relevant calls answered
    options,                \* the Options the front-end built
    argv,                   \* the command line the kernel is started with
    parsed_permission,      \* what the permission factory made of argv
    parsed_executable,      \* what the executable factory made of argv
    pid,                    \* which invocation the variables above describe
    peer,                   \* the other invocation, while it is not running
    log_file                \* the lines appended to the log file

vars == <<executable, current_permissions, requested_permissions, verifiers,
          pc, vi, res, trace, ret, ident, image, environ,
          sudoers, rules, relevant,
          options, argv, parsed_permission, parsed_executable,
          pid, peer, log_file>>

request == <<executable, current_permissions, requested_permissions, verifiers>>

\* What the front-end and the factories of the kernel write.
frontend == <<options, argv, parsed_permission, parsed_executable>>

\* What neither service nor exec writes.
others == <<environ, sudoers, rules, relevant, frontend, pid, peer>>

\* The front-end is not part of the run.
NoFrontEnd ==
    /\ options = [built |-> FALSE]
    /\ argv = <<>>
    /\ parsed_permission = [parsed |-> FALSE]
    /\ parsed_executable = [parsed |-> FALSE]

\* The invocation is the only one, and the log file starts empty.
Alone ==
    /\ pid = 1
    /\ peer = [pid |-> 0]
    /\ log_file = <<>>

\* to_file: the line a logger that succeeds appends to the log file.
WriteLog(ok, verify_res) ==
    log_file' = IF ok
                THEN Append(log_file, [pid |-> pid,
                                       exe |-> executable,
                                       cur |-> current_permissions,
                                       req |-> requested_permissions,
                                       res |-> verify_res])
                ELSE log_file

NoReturn == [tag |-> "None", cause |-> "None"]

\* main has built the Request and is about to call service.
Init ==
    /\ executable \in Executables
    /\ current_permissions \in CurrentPermissions
    /\ \E r \in Requests : verifiers = r[1] /\ requested_permissions = r[2]
    /\ pc = "verify"
    /\ vi = 1
    /\ res = InitialVerifyResult
    /\ trace = <<>>
    /\ ret = NoReturn
    /\ ident = [uid |-> current_permissions.uid,
                gid |-> current_permissions.primary_gid,
                groups |-> current_permissions.secondary_gids]
    /\ image = "sus-kernel"
    /\ environ \in Environments
    /\ sudoers = NoSudoers
    /\ rules = <<>>
    /\ relevant = NotAsked
    /\ NoFrontEnd
    /\ Alone

\* ----------------------------------------------------------------- service
\* A loop that never moves on to the next verifier.
VerifyWithoutAdvance ==
    /\ pc = "verify"
    /\ vi <= Len(verifiers)
    /\ res' = ResultOr(res, verifiers[vi])
    /\ UNCHANGED <<request, others, log_file, pc, vi, trace, ret, ident, image>>

\* A loop that stops calling verifiers once one has returned Ok.
VerifyShortCircuit ==
    /\ pc = "verify"
    /\ vi <= Len(verifiers)
    /\ res' = ResultOr(res, verifiers[vi])
    /\ trace' = Append(trace, [op |-> "verifier", idx |-> vi,
                               cur |-> current_permissions,
                               req |-> requested_permissions,
                               exe |-> executable,
                               result |-> verifiers[vi]])
    /\ vi' = IF res' = "Ok" THEN Len(verifiers) + 1 ELSE vi + 1
    /\ UNCHANGED <<request, others, log_file, pc, ret, ident, image>>

\* One iteration of the for loop over the verifiers.
Verify ==
    /\ pc = "verify"
    /\ vi <= Len(verifiers)
    /\ res' = ResultOr(res, verifiers[vi])
    /\ trace' = Append(trace, [op |-> "verifier", idx |-> vi,
                               cur |-> current_permissions,
                               req |-> requested_permissions,
                               exe |-> executable,
                               result |-> verifiers[vi]])
    /\ vi' = vi + 1
    /\ UNCHANGED <<request, others, log_file, pc, ret, ident, image>>

\* A service that logs the allowed attempts only: a denied attempt goes to the
\* allow/deny branch unlogged.
LogAttemptOnlyAllowed ==
    /\ pc = "verify"
    /\ vi > Len(verifiers)
    /\ IF res = "Ok"
       THEN \E ok \in BOOLEAN :
              /\ WriteLog(ok, res)
              /\ trace' = Append(trace, [op |-> "logger",
                                         exe |-> executable,
                                         cur |-> current_permissions,
                                         req |-> requested_permissions,
                                         res |-> res,
                                         ok |-> ok])
              /\ IF ok
                 THEN pc' = "check" /\ ret' = ret
                 ELSE pc' = "returned" /\ ret' = [tag |-> "Log", cause |-> "LogError"]
       ELSE pc' = "check" /\ UNCHANGED <<trace, ret, log_file>>
    /\ UNCHANGED <<request, others, vi, res, ident, image>>

\* A service that hands the logger the accumulator the fold started with.
LogAttemptStale ==
    /\ pc = "verify"
    /\ vi > Len(verifiers)
    /\ \E ok \in BOOLEAN :
         /\ WriteLog(ok, InitialVerifyResult)
         /\ trace' = Append(trace, [op |-> "logger",
                                    exe |-> executable,
                                    cur |-> current_permissions,
                                    req |-> requested_permissions,
                                    res |-> InitialVerifyResult,
                                    ok |-> ok])
         /\ IF ok
            THEN pc' = "check" /\ ret' = ret
            ELSE pc' = "returned" /\ ret' = [tag |-> "Log", cause |-> "LogError"]
    /\ UNCHANGED <<request, others, vi, res, ident, image>>

\* A service that reports a denial before a failure of the logger.
LogAttemptVerifyFirst ==
    /\ pc = "verify"
    /\ vi > Len(verifiers)
    /\ \E ok \in BOOLEAN :
         /\ WriteLog(ok, res)
         /\ trace' = Append(trace, [op |-> "logger",
                                    exe |-> executable,
                                    cur |-> current_permissions,
                                    req |-> requested_permissions,
                                    res |-> res,
                                    ok |-> ok])
         /\ IF ok
            THEN pc' = "check" /\ ret' = ret
            ELSE /\ pc' = "returned"
                 /\ ret' = IF res = "Ok"
                           THEN [tag |-> "Log", cause |-> "LogError"]
                           ELSE [tag |-> "Verify", cause |-> res]
    /\ UNCHANGED <<request, others, vi, res, ident, image>>

\* A service that calls the logger and drops its result (no question mark).
LogAttemptIgnoringFailure ==
    /\ pc = "verify"
    /\ vi > Len(verifiers)
    /\ \E ok \in BOOLEAN :
         /\ WriteLog(ok, res)
         /\ trace' = Append(trace, [op |-> "logger",
                                    exe |-> executable,
                                    cur |-> current_permissions,
                                    req |-> requested_permissions,
                                    res |-> res,
                                    ok |-> ok])
    /\ pc' = "check"
    /\ UNCHANGED <<request, others, vi, res, ret, ident, image>>

\* The loop is over: the logger is called with the aggregate result; if it
\* fails service returns RequestError::Log.
LogAttempt ==
    /\ pc = "verify"
    /\ vi > Len(verifiers)
    /\ IF LogFeature
       THEN \E ok \in BOOLEAN :
              /\ WriteLog(ok, res)
              /\ trace' = Append(trace, [op |-> "logger",
                                         exe |-> executable,
                                         cur |-> current_permissions,
                                         req |-> requested_permissions,
                                         res |-> res,
                                         ok |-> ok])
              /\ IF ok
                 THEN pc' = "check" /\ ret' = ret
                 ELSE pc' = "returned" /\ ret' = [tag |-> "Log", cause |-> "LogError"]
       ELSE pc' = "check" /\ UNCHANGED <<trace, ret, log_file>>
    /\ UNCHANGED <<request, others, vi, res, ident, image>>

\* verify_res is an Err: service returns RequestError::Verify with it.
\* A service that reports every denial as NotAllowed.
FailVerifyUniform ==
    /\ pc = "check"
    /\ res # "Ok"
    /\ ret' = [tag |-> "Verify", cause |-> "NotAllowed"]
    /\ pc' = "returned"
    /\ UNCHANGED <<request, others, log_file, vi, res, trace, ident, image>>

FailVerify ==
    /\ pc = "check"
    /\ res # "Ok"
    /\ ret' = [tag |-> "Verify", cause |-> res]
    /\ pc' = "returned"
    /\ UNCHANGED <<request, others, log_file, vi, res, trace, ident, image>>

\* A service that calls the runner without looking at verify_res.
RunUnchecked ==
    /\ pc = "check"
    /\ trace' = Append(trace, [op |-> "runner",
                               perm |-> requested_permissions,
                               exe |-> executable])
    /\ pc' = "setgroups"
    /\ UNCHANGED <<request, others, log_file, vi, res, ret, ident, image>>

\* A service that decides on the verdict of the last line of the log file.
RunOnLoggedVerdict ==
    /\ pc = "check"
    /\ log_file # <<>>
    /\ log_file[Len(log_file)].res = "Ok"
    /\ trace' = Append(trace, [op |-> "runner",
                               perm |-> requested_permissions,
                               exe |-> executable])
    /\ pc' = "setgroups"
    /\ UNCHANGED <<request, others, log_file, vi, res, ret, ident, image>>

\* verify_res is Ok: the runner is called.
Run ==
    /\ pc = "check"
    /\ res = "Ok"
    /\ trace' = Append(trace, [op |-> "runner",
                               perm |-> requested_permissions,
                               exe |-> executable])
    /\ pc' = "setgroups"
    /\ UNCHANGED <<request, others, log_file, vi, res, ret, ident, image>>

\* -------------------------------------------------------------------- exec
\* A service that wraps the runner's error in RequestError::Verify.
RunnerReturnsAsVerify(err) ==
    /\ ret' = [tag |-> "Verify", cause |-> err]
    /\ pc' = "returned"

\* The runner returns err and service wraps it in RequestError::Run.
RunnerReturns(err) ==
    /\ ret' = [tag |-> "Run", cause |-> err]
    /\ pc' = "returned"

\* An exec that goes from setgroups straight to setuid.
SetGroupsThenUid ==
    /\ pc = "setgroups"
    /\ \E new_sgid_vec \in NewSgidVecs(requested_permissions), ok \in BOOLEAN :
         /\ trace' = Append(trace, [op |-> "setgroups", groups |-> new_sgid_vec,
                                    ok |-> ok])
         /\ IF ok
            THEN /\ ident' = [ident EXCEPT !.groups = Range(new_sgid_vec)]
                 /\ pc' = "setuid"
                 /\ ret' = ret
            ELSE /\ RunnerReturns("SetSecondaryGID")
                 /\ ident' = ident
    /\ UNCHANGED <<request, others, log_file, vi, res, image>>

\* unistd::setgroups(&new_sgid_vec): the complete group list of the process
\* becomes the sorted vector, or exec returns RunError::SetSecondaryGID.
SetGroups ==
    /\ pc = "setgroups"
    /\ \E new_sgid_vec \in NewSgidVecs(requested_permissions), ok \in BOOLEAN :
         /\ trace' = Append(trace, [op |-> "setgroups", groups |-> new_sgid_vec,
                                    ok |-> ok])
         /\ IF ok
            THEN /\ ident' = [ident EXCEPT !.groups = Range(new_sgid_vec)]
                 /\ pc' = "setgid"
                 /\ ret' = ret
            ELSE /\ RunnerReturns("SetSecondaryGID")
                 /\ ident' = ident
    /\ UNCHANGED <<request, others, log_file, vi, res, image>>

\* An exec that drops the result of setgid and goes on to setuid.
SetGidIgnoringFailure ==
    /\ pc = "setgid"
    /\ \E ok \in BOOLEAN :
         /\ trace' = Append(trace, [op |-> "setgid",
                                    gid |-> requested_permissions.primary_gid,
                                    ok |-> ok])
         /\ ident' = IF ok
                     THEN [ident EXCEPT !.gid = requested_permissions.primary_gid]
                     ELSE ident
    /\ pc' = "setuid"
    /\ UNCHANGED <<request, others, log_file, vi, res, ret, image>>

\* unistd::setgid(perm.primary_gid), or exec returns RunError::SetPrimaryGID.
SetGid ==
    /\ pc = "setgid"
    /\ \E ok \in BOOLEAN :
         /\ trace' = Append(trace, [op |-> "setgid",
                                    gid |-> requested_permissions.primary_gid,
                                    ok |-> ok])
         /\ IF ok
            THEN /\ ident' = [ident EXCEPT !.gid = requested_permissions.primary_gid]
                 /\ pc' = "setuid"
                 /\ ret' = ret
            ELSE /\ RunnerReturns("SetPrimaryGID")
                 /\ ident' = ident
    /\ UNCHANGED <<request, others, log_file, vi, res, image>>

\* An exec that calls setuid again when it has failed.
SetUidRetrying ==
    /\ pc = "setuid"
    /\ \E ok \in BOOLEAN :
         /\ trace' = Append(trace, [op |-> "setuid",
                                    uid |-> requested_permissions.uid,
                                    ok |-> ok])
         /\ IF ok
            THEN /\ ident' = [ident EXCEPT !.uid = requested_permissions.uid]
                 /\ pc' = "execve"
            ELSE /\ ident' = ident
                 /\ pc' = pc
    /\ UNCHANGED <<request, others, log_file, vi, res, ret, image>>

\* unistd::setuid(perm.uid), or exec returns RunError::SetUID.
SetUid ==
    /\ pc = "setuid"
    /\ \E ok \in BOOLEAN :
         /\ trace' = Append(trace, [op |-> "setuid",
                                    uid |-> requested_permissions.uid,
                                    ok |-> ok])
         /\ IF ok
            THEN /\ ident' = [ident EXCEPT !.uid = requested_permissions.uid]
                 /\ pc' = "execve"
                 /\ ret' = ret
            ELSE /\ RunnerReturns("SetUID")
                 /\ ident' = ident
    /\ UNCHANGED <<request, others, log_file, vi, res, image>>

\* An exec that hands its own environment to the new image.
ExecveInheritingEnviron ==
    /\ pc = "execve"
    /\ \E ok \in BOOLEAN :
         /\ trace' = Append(trace, [op |-> "execve", path |-> executable.path,
                                    args |-> executable.args, env |-> environ,
                                    ok |-> ok])
         /\ IF ok
            THEN /\ image' = executable.path
                 /\ pc' = "replaced"
                 /\ ret' = ret
            ELSE /\ RunnerReturns("Execute")
                 /\ image' = image
    /\ UNCHANGED <<request, others, log_file, vi, res, ident>>

\* unistd::execve(&execable.path, &execable.args, &[]): the process image is
\* replaced and nothing returns, or exec returns RunError::Execute.
Execve ==
    /\ pc = "execve"
    /\ \E ok \in BOOLEAN :
         /\ trace' = Append(trace, [op |-> "execve", path |-> executable.path,
                                    args |-> executable.args, env |-> <<>>,
                                    ok |-> ok])
         /\ IF ok
            THEN /\ image' = executable.path
                 /\ pc' = "replaced"
                 /\ ret' = ret
            ELSE /\ RunnerReturns("Execute")
                 /\ image' = image
    /\ UNCHANGED <<request, others, log_file, vi, res, ident>>

\* -------------------------------------------------------------------- main
\* service returned an Err: unwrap panics and the panic hook exits.
MainExit ==
    /\ pc = "returned"
    /\ pc' = "exited"
    /\ UNCHANGED <<request, others, log_file, vi, res, trace, ret, ident, image>>

Next ==
    \/ Verify
    \/ LogAttempt
    \/ FailVerify
    \/ Run
    \/ SetGroups
    \/ SetGid
    \/ SetUid
    \/ Execve
    \/ MainExit

Spec == Init /\ [][Next]_vars

\* Every verifier, the logger and every system call returns, and main goes
\* on after service has returned: a step that can be taken is taken.
SpecLive == Init /\ [][Next]_vars /\ WF_vars(Next)

\* ------------------------------------------------------------ two kernels
\* Two invocations of the kernel at once.  Each is a process of its own: its
\* Request, its position in service and in exec, its identity and its image
\* are its own.  The variables of the module hold the invocation that is
\* running, peer holds the one that is not, and the log file is the one thing
\* both can reach.

\* The invocation that is running.
Running ==
    [pid |-> pid, executable |-> executable,
     current_permissions |-> current_permissions,
     requested_permissions |-> requested_permissions,
     verifiers |-> verifiers, environ |-> environ,
     pc |-> pc, vi |-> vi, res |-> res, trace |-> trace, ret |-> ret,
     ident |-> ident, image |-> image]

\* An invocation that main has built and that is about to call service.
Invocation(p, exe, cur, req, vs, env) ==
    [pid |-> p, executable |-> exe, current_permissions |-> cur,
     requested_permissions |-> req, verifiers |-> vs, environ |-> env,
     pc |-> "verify", vi |-> 1, res |-> InitialVerifyResult, trace |-> <<>>,
     ret |-> NoReturn,
     ident |-> [uid |-> cur.uid, gid |-> cur.primary_gid,
                groups |-> cur.secondary_gids],
     image |-> "sus-kernel"]

\* The verifier lists of the two invocations: an empty list, an allowing
\* one, a failing one, and a denial followed by an allowance.
ConcurrentVerifierLists ==
    {v \in {<<>>, <<"Ok">>, <<"Malformed">>, <<"NotAllowed", "Ok">>} :
        Len(v) <= MaxVerifiers}

\* The user asks to run /bin/ls as root while root asks to run /bin/rm as
\* the user.
InitConcurrent ==
    /\ \E vs1 \in ConcurrentVerifierLists, vs2 \in ConcurrentVerifierLists :
         LET user == [uid |-> MaxUid, primary_gid |-> MaxUid, secondary_gids |-> {MaxUid}]
             root == [uid |-> 0, primary_gid |-> 0, secondary_gids |-> {0}]
             first == Invocation(1, [path |-> "/bin/ls", args |-> <<"ls">>],
                                 user, [root EXCEPT !.secondary_gids = {}],
                                 vs1, <<>>)
             second == Invocation(2, [path |-> "/bin/rm", args |-> <<"rm", "-f">>],
                                  root, user, vs2, <<>>)
         IN  /\ pid = first.pid
             /\ executable = first.executable
             /\ current_permissions = first.current_permissions
             /\ requested_permissions = first.requested_permissions
             /\ verifiers = first.verifiers
             /\ environ = first.environ
             /\ pc = first.pc
             /\ vi = first.vi
             /\ res = first.res
             /\ trace = first.trace
             /\ ret = first.ret
             /\ ident = first.ident
             /\ image = first.image
             /\ peer = second
    /\ log_file = <<>>
    /\ sudoers = NoSudoers
    /\ rules = <<>>
    /\ relevant = NotAsked
    /\ NoFrontEnd

\* The scheduler takes the processor from one invocation and gives it to the
\* other, between any two steps.
ContextSwitch ==
    /\ peer' = Running
    /\ pid' = peer.pid
    /\ executable' = peer.executable
    /\ current_permissions' = peer.current_permissions
    /\ requested_permissions' = peer.requested_permissions
    /\ verifiers' = peer.verifiers
    /\ environ' = peer.environ
    /\ pc' = peer.pc
    /\ vi' = peer.vi
    /\ res' = peer.res
    /\ trace' = peer.trace
    /\ ret' = peer.ret
    /\ ident' = peer.ident
    /\ image' = peer.image
    /\ UNCHANGED <<log_file, sudoers, rules, relevant, frontend>>

NextConcurrent ==
    \/ Next
    \/ ContextSwitch

SpecConcurrent == InitConcurrent /\ [][NextConcurrent]_vars

\* --------------------------------------------------------------- relevance
\* The two is_relevant functions, applied to a Rule and to an AllowedCmd
\* whose fields are drawn directly.

\* The uid set, gid set and the two flags of a Rule or of an AllowedCmd:
\* every pair of sets without flags, and every pair of flags without sets.
Principals ==
    [users : SUBSET Uids, allow_all_users : {FALSE},
     groups : SUBSET Gids, allow_all_groups : {FALSE}]
    \cup [users : {{}}, allow_all_users : BOOLEAN,
          groups : {{}}, allow_all_groups : BOOLEAN]

RuleOf(s, allowed_cmd) ==
    [NewRule EXCEPT !.users = s.users, !.allow_all_users = s.allow_all_users,
                    !.groups = s.groups, !.allow_all_groups = s.allow_all_groups,
                    !.allowed_cmds = <<allowed_cmd>>]
AllowedCmdWith(s) ==
    [NewAllowedCmd EXCEPT
        !.users = s.users, !.allow_all_users = s.allow_all_users,
        !.groups = s.groups, !.allow_all_groups = s.allow_all_groups]

Root == [uid |-> 0, primary_gid |-> 0, secondary_gids |-> {}]

InitRelevance ==
    /\ \/ /\ \E s \in Principals : rules = <<RuleOf(s, NewAllowedCmd)>>
          /\ current_permissions \in Permission
          /\ requested_permissions = Root
       \/ /\ \E s \in Principals : rules = <<RuleOf(s, AllowedCmdWith(s))>>
          /\ current_permissions = Root
          /\ requested_permissions \in Permission
    /\ executable = CHOOSE e \in Executables : e.path = "/bin/ls"
    /\ verifiers = <<>>
    /\ pc = "relevance"
    /\ vi = 1
    /\ res = InitialVerifyResult
    /\ trace = <<>>
    /\ ret = NoReturn
    /\ ident = [uid |-> current_permissions.uid,
                gid |-> current_permissions.primary_gid,
                groups |-> current_permissions.secondary_gids]
    /\ image = "sus-kernel"
    /\ environ = <<>>
    /\ sudoers = NoSudoers
    /\ relevant = NotAsked
    /\ NoFrontEnd
    /\ Alone

\* rule.is_relevant(curr_perm)
CallRuleIsRelevant ==
    /\ pc = "relevance"
    /\ relevant.rule = {}
    /\ relevant' = [relevant EXCEPT !.rule =
                       {RuleIsRelevant(rules[1], current_permissions)}]
    /\ UNCHANGED <<request, environ, sudoers, rules, frontend, pid, peer, log_file,
                   pc, vi, res, trace, ret, ident, image>>

\* allowed_cmd.is_relevant(req_perm)
CallAllowedCmdIsRelevant ==
    /\ pc = "relevance"
    /\ relevant.cmd = {}
    /\ relevant' = [relevant EXCEPT !.cmd =
           {AllowedCmdIsRelevant(rules[1].allowed_cmds[1],
                                 requested_permissions)}]
    /\ UNCHANGED <<request, environ, sudoers, rules, frontend, pid, peer, log_file,
                   pc, vi, res, trace, ret, ident, image>>

NextRelevance ==
    \/ CallRuleIsRelevant
    \/ CallAllowedCmdIsRelevant

SpecRelevance == InitRelevance /\ [][NextRelevance]_vars

\* ------------------------------------------------------------ policy load
\* The two loaders of a policy source, from_sudoers and Sudoers::retrieve_ids,
\* and the service of a Request whose verifiers are those from_sudoers built.

Alice == [uid |-> 1, primary_gid |-> 1, secondary_gids |-> {1}]

InitPolicy ==
    /\ \/ /\ sudoers \in WideSources
          /\ current_permissions = Alice
          /\ requested_permissions = Root
          /\ executable = CHOOSE e \in Executables : e.path = "/bin/ls"
       \/ /\ sudoers \in NarrowSources
          /\ current_permissions \in CurrentPermissions
          /\ requested_permissions \in RequestedWithoutSecondary
          /\ executable \in Executables
    /\ verifiers = <<>>
    /\ pc = "load"
    /\ vi = 1
    /\ res = InitialVerifyResult
    /\ trace = <<>>
    /\ ret = NoReturn
    /\ ident = [uid |-> current_permissions.uid,
                gid |-> current_permissions.primary_gid,
                groups |-> current_permissions.secondary_gids]
    /\ image = "sus-kernel"
    /\ environ = <<>>
    /\ rules = <<>>
    /\ relevant = NotAsked
    /\ NoFrontEnd
    /\ Alone

\* The source does not decode, or a subject list names an alias the alias
\* table does not have: the unwraps and the index of the loaders panic.
LoadPanics ==
    \/ ~sudoers.decodes
    \/ \E i \in DOMAIN sudoers.user_specs :
          UserspecPanics(sudoers.user_specs[i], sudoers.user_aliases)

\* The closure from_sudoers pushes for a user spec, applied to a request.
SudoersVerifier(user_spec, curr_perm, req_perm, exe) == "Ok"

\* A from_sudoers that builds its verifiers from whatever it can read.
FromSudoersLenient ==
    /\ pc = "load"
    /\ verifiers' = [i \in DOMAIN sudoers.user_specs |->
                        SudoersVerifier(sudoers.user_specs[i],
                                        current_permissions,
                                        requested_permissions, executable)]
    /\ pc' = "verify"
    /\ UNCHANGED <<executable, current_permissions, requested_permissions,
                   others, log_file, vi, res, trace, ret, ident, image>>

\* from_sudoers returns one verifier per user spec; the Request is built
\* with them and serviced.
FromSudoers ==
    /\ pc = "load"
    /\ ~LoadPanics
    /\ verifiers' = [i \in DOMAIN sudoers.user_specs |->
                        SudoersVerifier(sudoers.user_specs[i],
                                        current_permissions,
                                        requested_permissions, executable)]
    /\ pc' = "verify"
    /\ UNCHANGED <<executable, current_permissions, requested_permissions,
                   others, log_file, vi, res, trace, ret, ident, image>>

\* from_sudoers panics: no verifier list is returned.
FromSudoersPanics ==
    /\ pc = "load"
    /\ LoadPanics
    /\ pc' = "exited"
    /\ UNCHANGED <<request, others, log_file, vi, res, trace, ret, ident, image>>

\* A retrieve_ids that puts each new rule in front of the others.
RetrieveIdsPushFront ==
    /\ pc \in {"load", "retrieve"}
    /\ sudoers.decodes
    /\ Len(rules) < Len(sudoers.user_specs)
    /\ LET user_spec == sudoers.user_specs[Len(rules) + 1]
       IN  /\ ~UserspecPanics(user_spec, sudoers.user_aliases)
           /\ rules' = <<FromUserspec(user_spec, sudoers.user_aliases)>> \o rules
    /\ pc' = "retrieve"
    /\ UNCHANGED <<request, environ, sudoers, relevant, frontend, pid, peer, log_file,
                   vi, res, trace, ret, ident, image>>

\* retrieve_ids, one turn of its loop: the rule of the next user spec is
\* pushed.
RetrieveIdsPush ==
    /\ pc \in {"load", "retrieve"}
    /\ sudoers.decodes
    /\ Len(rules) < Len(sudoers.user_specs)
    /\ LET user_spec == sudoers.user_specs[Len(rules) + 1]
       IN  /\ ~UserspecPanics(user_spec, sudoers.user_aliases)
           /\ rules' = Append(rules, FromUserspec(user_spec, sudoers.user_aliases))
    /\ pc' = "retrieve"
    /\ UNCHANGED <<request, environ, sudoers, relevant, frontend, pid, peer, log_file,
                   vi, res, trace, ret, ident, image>>

\* retrieve_ids, a turn of its loop in which from_userspec panics: the rules
\* built so far are dropped with the ParsedSudoers.
RetrieveIdsPanics ==
    /\ pc \in {"load", "retrieve"}
    /\ sudoers.decodes
    /\ Len(rules) < Len(sudoers.user_specs)
    /\ UserspecPanics(sudoers.user_specs[Len(rules) + 1], sudoers.user_aliases)
    /\ rules' = <<>>
    /\ pc' = "exited"
    /\ UNCHANGED <<request, environ, sudoers, relevant, frontend, pid, peer, log_file,
                   vi, res, trace, ret, ident, image>>

\* retrieve_ids returns the ParsedSudoers.
RetrieveIdsReturns ==
    /\ pc \in {"load", "retrieve"}
    /\ sudoers.decodes
    /\ Len(rules) = Len(sudoers.user_specs)
    /\ pc' = "retrieved"
    /\ UNCHANGED <<request, others, log_file, vi, res, trace, ret, ident, image>>

NextPolicy ==
    \/ FromSudoers
    \/ FromSudoersPanics
    \/ RetrieveIdsPush
    \/ RetrieveIdsPanics
    \/ RetrieveIdsReturns
    \/ Next

SpecPolicy == InitPolicy /\ [][NextPolicy]_vars

\* ---------------------------------------------------- front-end to kernel
\* Options::to_kernel_commandline of the front-end, and the two from_iterator
\* factories of the kernel reading the command line it produced.  A string is
\* the sequence of its characters.

\* config/sus.rs
KERNEL_PATH ==
    <<"/", "u", "s", "r", "/", "l", "o", "c", "a", "l", "/", "b", "i", "n",
      "/", "s", "u", "s", "-", "k", "e", "r", "n", "e", "l">>
KERNEL_COMMANDLINE_BINARY_IDX == 4
KERNEL_COMMANDLINE_ARG_START_IDX == 5
KERNEL_COMMANDLINE_UID_IDX == 1
KERNEL_COMMANDLINE_PRIMARY_GID_IDX == 2
KERNEL_COMMANDLINE_SECONDARY_GID_IDX == 3

\* config/sus-kernel.rs
EXECUTABLE_COMMANDLINE_PATH_IDX == 4
EXECUTABLE_COMMANDLINE_ARG_START_IDX == 5
PERMISSION_COMMANDLINE_UID_IDX == 1
PERMISSION_COMMANDLINE_PRIMARY_GID_IDX == 2
PERMISSION_COMMANDLINE_SECONDARY_GID_IDX == 3

\* Most secondary groups of an Options value.
MaxSecondaryGids == 2

DecimalDigits == <<"0", "1", "2", "3", "4", "5", "6", "7", "8", "9">>

\* u32::to_string, in decimal
RECURSIVE U32ToString(_)
U32ToString(n) ==
    IF n < 10 THEN <<DecimalDigits[n + 1]>>
    ELSE U32ToString(n \div 10) \o <<DecimalDigits[(n % 10) + 1]>>

\* [String]::join(sep)
RECURSIVE Join(_, _)
Join(strings, sep) ==
    IF strings = <<>> THEN <<>>
    ELSE IF Len(strings) = 1 THEN strings[1]
    ELSE strings[1] \o sep \o Join(Tail(strings), sep)

\* str::split(sep) for a separator of one character: one more piece than
\* there are separators, so the empty string splits into one empty piece.
RECURSIVE Split(_, _)
Split(string, sep) ==
    IF \A i \in DOMAIN string : string[i] # sep THEN <<string>>
    ELSE LET at == CHOOSE i \in DOMAIN string :
                       string[i] = sep /\ \A j \in 1..(i - 1) : string[j] # sep
         IN  <<SubSeq(string, 1, at - 1)>>
                 \o Split(SubSeq(string, at + 1, Len(string)), sep)

\* The number a string of decimal digits stands for.
RECURSIVE DecimalValue(_)
DecimalValue(digits) ==
    IF digits = <<>> THEN 0
    ELSE 10 * DecimalValue(SubSeq(digits, 1, Len(digits) - 1))
             + (CHOOSE d \in 0..9 : DecimalDigits[d + 1] = digits[Len(digits)])

\* str::parse for an unsigned integer: an optional plus sign and at least one
\* digit, nothing else.
ParseUnsigned(string) ==
    LET digits == IF string # <<>> /\ string[1] = "+" THEN Tail(string)
                  ELSE string
    IN  IF digits # <<>> /\ \A i \in DOMAIN digits : digits[i] \in Range(DecimalDigits)
        THEN [ok |-> TRUE, value |-> DecimalValue(digits)]
        ELSE [ok |-> FALSE, value |-> 0]

\* permission from_iterator, the parse of the list of secondary gids.
SecondaryGids(string) ==
    LET s_spl == Split(string, ",")
        gs_r == [i \in DOMAIN s_spl |-> ParseUnsigned(s_spl[i])]
    IN  [ok |-> \A i \in DOMAIN gs_r : gs_r[i].ok,
         value |-> {gs_r[i].value : i \in DOMAIN gs_r}]

\* Vec::get(idx): the element at a zero-based index, if there is one.
Has(args, idx) == idx + 1 \in DOMAIN args
Get(args, idx) == args[idx + 1]

Failed(err) == [parsed |-> TRUE, ok |-> FALSE, err |-> err]
Made(value) == [parsed |-> TRUE, ok |-> TRUE, value |-> value]

\* permission::factory::from_iterator(it, uid_idx, gid1_idx, gid2_idx)
PermissionFromIterator(args, uid_idx, gid1_idx, gid2_idx) ==
    IF ~Has(args, uid_idx) THEN Failed("UIDNotFound")
    ELSE IF ~ParseUnsigned(Get(args, uid_idx)).ok THEN Failed("UIDMalformed")
    ELSE IF ~Has(args, gid1_idx) THEN Failed("PrimaryGIDNotFound")
    ELSE IF ~ParseUnsigned(Get(args, gid1_idx)).ok
         THEN Failed("PrimaryGIDMalformed")
    ELSE IF ~Has(args, gid2_idx) THEN Failed("SecondaryGIDNotFound")
    ELSE IF ~SecondaryGids(Get(args, gid2_idx)).ok
         THEN Failed("SecondaryGIDMalformed")
    ELSE Made([uid |-> ParseUnsigned(Get(args, uid_idx)).value,
               primary_gid |-> ParseUnsigned(Get(args, gid1_idx)).value,
               secondary_gids |-> SecondaryGids(Get(args, gid2_idx)).value])

\* executable::factory::from_iterator(it, path_idx, args_start_idx); no
\* string of the model holds a NUL, so the conversions to CString succeed.
ExecutableFromIterator(args, path_idx, args_start_idx) ==
    IF ~Has(args, path_idx) THEN Failed("PathNotFound")
    ELSE IF args_start_idx > Len(args) THEN Failed("ArgNotFound")
    ELSE IF SubSeq(args, args_start_idx + 1, Len(args)) = <<>>
         THEN Failed("ArgNotFound")
    ELSE Made([path |-> Get(args, path_idx),
               args |-> SubSeq(args, args_start_idx + 1, Len(args))])

\* Options::to_kernel_commandline, with the order in which the HashSet of
\* secondary gids is iterated.
ToKernelCommandline(self, order) ==
    LET blank == [i \in 1..KERNEL_COMMANDLINE_ARG_START_IDX |->
                     IF i = 1 THEN KERNEL_PATH ELSE <<>>]
        cmdline == [blank EXCEPT
                      ![KERNEL_COMMANDLINE_UID_IDX + 1] = U32ToString(self.uid),
                      ![KERNEL_COMMANDLINE_PRIMARY_GID_IDX + 1] =
                          U32ToString(self.primary_gid),
                      ![KERNEL_COMMANDLINE_SECONDARY_GID_IDX + 1] =
                          Join([i \in DOMAIN order |-> U32ToString(order[i])], <<",">>),
                      ![KERNEL_COMMANDLINE_BINARY_IDX + 1] = self.binary]
    IN  cmdline \o self.args

\* The ids of the Options: the ids of the model and two of several digits.
OptionIds == Gids \cup {10, 1000}

\* The binary and the argument vector of the Options: a command with one or
\* two arguments, one of them empty, and the two shells.
CommandVectors ==
    LET bin_ls == <<"/", "b", "i", "n", "/", "l", "s">>
        bin_sh == <<"/", "b", "i", "n", "/", "s", "h">>
        ls == <<"l", "s">>
        dash_l == <<"-", "l">>
    IN  { [binary |-> bin_ls, args |-> <<ls>>],
          [binary |-> bin_ls, args |-> <<ls, dash_l>>],
          [binary |-> bin_ls, args |-> <<ls, <<>>>>],
          [binary |-> bin_sh, args |-> <<bin_sh>>],
          [binary |-> bin_sh, args |-> <<bin_sh, dash_l>>] }

\* The Options values parse_options_like builds.
OptionsValues ==
    {[built |-> TRUE, uid |-> u, primary_gid |-> g, secondary_gids |-> s,
      binary |-> c.binary, args |-> c.args] :
        u \in Uids \cup {1000}, g \in OptionIds,
        s \in {t \in SUBSET OptionIds : Cardinality(t) <= MaxSecondaryGids},
        c \in CommandVectors}

InitRoundTrip ==
    /\ options \in OptionsValues
    /\ argv = <<>>
    /\ parsed_permission = [parsed |-> FALSE]
    /\ parsed_executable = [parsed |-> FALSE]
    /\ pc = "options"
    /\ executable = CHOOSE e \in Executables : e.path = "/bin/ls"
    /\ current_permissions = Alice
    /\ requested_permissions = Root
    /\ verifiers = <<>>
    /\ vi = 1
    /\ res = InitialVerifyResult
    /\ trace = <<>>
    /\ ret = NoReturn
    /\ ident = [uid |-> current_permissions.uid,
                gid |-> current_permissions.primary_gid,
                groups |-> current_permissions.secondary_gids]
    /\ image = "sus"
    /\ environ = <<>>
    /\ sudoers = NoSudoers
    /\ rules = <<>>
    /\ relevant = NotAsked
    /\ Alone

\* Options::execute: the front-end replaces itself by the kernel, started
\* with the command line to_kernel_commandline returned.
Execute ==
    /\ pc = "options"
    /\ \E order \in IterationOrders(options.secondary_gids) :
          argv' = ToKernelCommandline(options, order)
    /\ pc' = "kernel"
    /\ image' = "sus-kernel"
    /\ UNCHANGED <<request, environ, sudoers, rules, relevant, options,
                   parsed_permission, parsed_executable, pid, peer, log_file,
                   vi, res, trace, ret, ident>>

\* permission::factory::from_commandline
PermissionFromCommandline ==
    /\ pc = "kernel"
    /\ ~parsed_permission.parsed
    /\ parsed_permission' =
          PermissionFromIterator(argv, PERMISSION_COMMANDLINE_UID_IDX,
                                 PERMISSION_COMMANDLINE_PRIMARY_GID_IDX,
                                 PERMISSION_COMMANDLINE_SECONDARY_GID_IDX)
    /\ UNCHANGED <<request, environ, sudoers, rules, relevant, options, argv,
                   parsed_executable, pid, peer, log_file,
                   pc, vi, res, trace, ret, ident, image>>

\* executable::factory::from_commandline
ExecutableFromCommandline ==
    /\ pc = "kernel"
    /\ ~parsed_executable.parsed
    /\ parsed_executable' =
          ExecutableFromIterator(argv, EXECUTABLE_COMMANDLINE_PATH_IDX,
                                 EXECUTABLE_COMMANDLINE_ARG_START_IDX)
    /\ UNCHANGED <<request, environ, sudoers, rules, relevant, options, argv,
                   parsed_permission, pid, peer, log_file,
                   pc, vi, res, trace, ret, ident, image>>

NextRoundTrip ==
    \/ Execute
    \/ PermissionFromCommandline
    \/ ExecutableFromCommandline

SpecRoundTrip == InitRoundTrip /\ [][NextRoundTrip]_vars

\* ------------------------------------------------------ reading the trace
SyscallOps == {"setgroups", "setgid", "setuid", "execve"}

\* The positions of the trace at which op was called.
Calls(op) == {i \in DOMAIN trace : trace[i].op = op}

\* The system calls attempted so far, in order.
Syscalls == SelectSeq(trace, LAMBDA e : e.op \in SyscallOps)

\* service has returned to main.
Returned == pc \in {"returned", "exited"}

\* The invocation is over: service returned or the image was replaced.
Finished == Returned \/ pc = "replaced"

\* Some verifier called so far returned Ok.
SomeVerifierAllowed == \E i \in Calls("verifier") : trace[i].result = "Ok"

\* The runner has not been called and nothing of exec has happened.
RunnerNeverInvoked ==
    /\ Calls("runner") = {}
    /\ Syscalls = <<>>
    /\ pc \notin {"setgroups", "setgid", "setuid", "execve", "replaced"}

\* The process still has the identity and the image it started with.
ProcessUntouched ==
    /\ ident = [uid |-> current_permissions.uid,
                gid |-> current_permissions.primary_gid,
                groups |-> current_permissions.secondary_gids]
    /\ image = "sus-kernel"

\* -------------------------------------------------- reading the policy
\* A rule allows a request: its subjects match the current identity and one of
\* its allowed commands matches the requested identity and the target.
Evaluate(rule, curr_perm, req_perm, exe) ==
    /\ RuleIsRelevant(rule, curr_perm)
    /\ \E j \in DOMAIN rule.allowed_cmds :
          /\ AllowedCmdIsRelevant(rule.allowed_cmds[j], req_perm)
          /\ \/ rule.allowed_cmds[j].allow_all_cmds
             \/ exe.path \in rule.allowed_cmds[j].paths

\* Some rule of the policy source allows the request of this state.
PolicyAllows ==
    \E i \in DOMAIN sudoers.user_specs :
        Evaluate(FromUserspec(sudoers.user_specs[i], sudoers.user_aliases),
                 current_permissions, requested_permissions, executable)

\* A principal whose name neither database has.
Unresolvable(u) ==
    /\ u.name # ALL
    /\ \/ u.tag = "username" /\ u.name \notin DOMAIN Passwd
       \/ u.tag = "usergroup" /\ u.name \notin DOMAIN Group
Resolvable(list) == SelectSeq(list, LAMBDA u : ~Unresolvable(u))

\* A user spec without its unresolvable subjects and run-as principals.
WithoutUnresolvable(user_spec) ==
    [user_spec EXCEPT
        !.user_list = Resolvable(@),
        !.cmd_specs = [j \in DOMAIN @ |->
            [@[j] EXCEPT !.run_as_users = Resolvable(@),
                         !.run_as_groups = Resolvable(@)]]]

HasUnresolvable(user_spec) == WithoutUnresolvable(user_spec) # user_spec

\* The subject list holds the wildcard itself.
HasWildcardSubject(user_spec) ==
    \E k \in DOMAIN user_spec.user_list :
        user_spec.user_list[k] \in {Username(ALL), Usergroup(ALL)}

\* The load panicked: the process is gone before anything was serviced.
LoadPanicked == pc = "exited" /\ trace = <<>>

\* ------------------------------------------------------------------ claims

C3_AuditBeforeEffect ==
    /\ Cardinality(Calls("logger")) <= 1
    /\ pc # "verify" => Cardinality(Calls("logger")) = 1
    /\ \A l \in Calls("logger") :
          /\ Calls("verifier") = 1..Len(verifiers)
          /\ \A v \in Calls("verifier") : v < l
          /\ \A r \in DOMAIN trace :
                trace[r].op \in SyscallOps \cup {"runner"} => l < r
    /\ (Calls("runner") # {} \/ Syscalls # <<>>) => Calls("logger") # {}

C3_Witness ==
    /\ pc = "replaced"
    /\ Len(verifiers) = MaxVerifiers
    /\ Cardinality(Calls("logger")) = 1

\* C4: when the verify outcome is allow and the logger returns an error,
\* service returns RequestError::Log and the runner is never invoked, so no
\* setgroups, setgid, setuid or execve happens.
C4_AuditFailureBlocks ==
    \A l \in Calls("logger") :
        (trace[l].res = "Ok" /\ ~trace[l].ok) =>
            /\ Returned
            /\ ret.tag = "Log"
            /\ RunnerNeverInvoked
            /\ ProcessUntouched

C4_Witness ==
    /\ pc = "exited"
    /\ \E l \in Calls("logger") : trace[l].res = "Ok" /\ ~trace[l].ok

RunErrorOf(op) ==
    CASE op = "setgroups" -> "SetSecondaryGID"
      [] op = "setgid" -> "SetPrimaryGID"
      [] op = "setuid" -> "SetUID"
      [] op = "execve" -> "Execute"

\* The order in which a complete run of exec makes its system calls.
TransitionOrder == <<"setgroups", "setgid", "setuid", "execve">>

\* C6: service never returns a success value: whatever it returns is one of
\* RequestError::Verify, Log or Run, and whenever the runner returns, service
\* returns RequestError::Run carrying the runner's error.
C6_ReturnsOnlyErrors ==
    /\ Returned <=> ret # NoReturn
    /\ Returned =>
          /\ ret.tag \in {"Verify", "Log", "Run"}
          /\ ret.tag = "Verify" => ret.cause \in VerifyErrors
          /\ (Calls("runner") # {}) <=> (ret.tag = "Run")
          /\ Calls("runner") # {} =>
                /\ Syscalls # <<>>
                /\ ~Syscalls[Len(Syscalls)].ok
                /\ ret.cause = RunErrorOf(Syscalls[Len(Syscalls)].op)
    /\ pc = "replaced" => ret = NoReturn

C6_Witness ==
    /\ pc = "exited"
    /\ ret = [tag |-> "Run", cause |-> "SetPrimaryGID"]

\* C7: in every run of exec, successful or failing, the system calls that
\* are attempted occur in the order setgroups, setgid, setuid, execve; setuid
\* is never attempted before setgroups and setgid have succeeded, and execve
\* never before setuid has succeeded.
C7_TransitionOrder ==
    /\ Len(Syscalls) <= Len(TransitionOrder)
    /\ \A i \in DOMAIN Syscalls :
          /\ Syscalls[i].op = TransitionOrder[i]
          /\ \A j \in 1..(i - 1) : Syscalls[j].ok
    /\ \A i \in Calls("setuid") :
          \E g \in Calls("setgroups"), p \in Calls("setgid") :
              g < p /\ p < i /\ trace[g].ok /\ trace[p].ok
    /\ \A i \in Calls("execve") :
          \E u \in Calls("setuid") : u < i /\ trace[u].ok

C7_Witness ==
    /\ Len(Syscalls) = Len(TransitionOrder)
    /\ ~Syscalls[Len(Syscalls)].ok
    /\ pc = "exited"

\* C8: each step is fatal and step-tagged: if setgroups, setgid, setuid or
\* execve fails, exec returns at once with RunError::SetSecondaryGID,
\* SetPrimaryGID, SetUID or Execute respectively, and no later step of the
\* sequence is attempted.
C8_StepFatalAndTagged ==
    \A i \in DOMAIN trace :
        (trace[i].op \in SyscallOps /\ ~trace[i].ok) =>
            /\ i = Len(trace)
            /\ Returned
            /\ ret = [tag |-> "Run", cause |-> RunErrorOf(trace[i].op)]
            /\ image = "sus-kernel"

C8_Witness ==
    /\ pc = "exited"
    /\ \E i \in Calls("setuid") : ~trace[i].ok

\* C9: no retry: in one invocation each of setgroups, setgid, setuid and
\* execve is attempted at most once; after a step has failed service returns
\* RequestError::Run and main exits, and neither that step nor any other
\* identity change is attempted again.
C9_NoRetry ==
    /\ \A op \in SyscallOps : Cardinality(Calls(op)) <= 1
    /\ Cardinality(Calls("runner")) <= 1
    /\ (\E i \in DOMAIN Syscalls : ~Syscalls[i].ok) =>
          /\ Returned
          /\ ret.tag = "Run"
          /\ ~ENABLED (SetGroups \/ SetGid \/ SetUid \/ Execve \/ Run)
          /\ pc = "returned" => ENABLED MainExit
          /\ pc = "exited" => ~ENABLED Next

C9_Witness ==
    /\ pc = "exited"
    /\ \E i \in Calls("setgid") : ~trace[i].ok
    /\ \E i \in Calls("setgroups") : trace[i].ok

\* C10: the list exec passes to setgroups is in strictly ascending numeric
\* order, without duplicates, and its elements are exactly the requested
\* secondary gids together with the requested primary gid; when the primary
\* gid is already a secondary gid the union adds nothing.
C10_GroupList ==
    \A i \in Calls("setgroups") :
        LET list == trace[i].groups
            perm == requested_permissions
        IN  /\ \A a, b \in DOMAIN list : a < b => list[a] < list[b]
            /\ Range(list) = perm.secondary_gids \cup {perm.primary_gid}
            /\ perm.primary_gid \in perm.secondary_gids =>
                  Len(list) = Cardinality(perm.secondary_gids)
            /\ perm.primary_gid \notin perm.secondary_gids =>
                  Len(list) = Cardinality(perm.secondary_gids) + 1

C10_Witness ==
    \E i \in Calls("setgroups") :
        /\ Len(trace[i].groups) = MaxGid + 1
        /\ requested_permissions.primary_gid \notin requested_permissions.secondary_gids
        /\ requested_permissions.primary_gid > 0

\* C11: whenever exec reaches the execve step, execve is called with exactly
\* the path and the argument vector of the Executable and with an empty
\* environment, whatever environment the kernel itself was started with.
C11_HardenedExec ==
    /\ \A i \in Calls("execve") :
          /\ trace[i].path = executable.path
          /\ trace[i].args = executable.args
          /\ trace[i].env = <<>>
    /\ pc = "replaced" =>
          /\ \E i \in Calls("execve") : trace[i].ok
          /\ image = executable.path

C11_Witness ==
    /\ pc = "replaced"
    /\ environ # <<>>
    /\ Len(executable.args) > 1
    /\ \E i \in Calls("execve") : trace[i].ok

\* C13: for every Rule and every current identity, Rule::is_relevant answers
\* true exactly when the uid is one of the rule's users, or the primary gid
\* is one of the rule's groups, or a secondary gid is one of the rule's
\* groups, or the rule stands for all subjects (either of its two flags).
C13_SubjectRelevance ==
    \A answer \in relevant.rule :
        answer <=>
            \/ current_permissions.uid \in rules[1].users
            \/ current_permissions.primary_gid \in rules[1].groups
            \/ current_permissions.secondary_gids \cap rules[1].groups # {}
            \/ rules[1].allow_all_users \/ rules[1].allow_all_groups

\* A rule that is relevant through a secondary gid only.
C13_Witness ==
    /\ relevant.rule = {TRUE}
    /\ current_permissions.uid \notin rules[1].users
    /\ current_permissions.primary_gid \notin rules[1].groups
    /\ current_permissions.secondary_gids \cap rules[1].groups # {}
    /\ ~rules[1].allow_all_users /\ ~rules[1].allow_all_groups

\* C14: for every AllowedCmd and every requested identity,
\* AllowedCmd::is_relevant answers true exactly when the uid is one of the
\* entry's users, or the primary gid is one of the entry's groups, or a
\* secondary gid is one of the entry's groups, or allow_all_users or
\* allow_all_groups is set.
C14_TargetRelevance ==
    \A answer \in relevant.cmd :
        LET entry == rules[1].allowed_cmds[1]
        IN  answer <=>
                \/ requested_permissions.uid \in entry.users
                \/ requested_permissions.primary_gid \in entry.groups
                \/ requested_permissions.secondary_gids \cap entry.groups # {}
                \/ entry.allow_all_users
                \/ entry.allow_all_groups

\* An entry that is relevant through allow_all_groups only.
C14_Witness ==
    LET entry == rules[1].allowed_cmds[1]
    IN  /\ relevant.cmd = {TRUE}
        /\ entry.allow_all_groups /\ ~entry.allow_all_users
        /\ entry.users = {} /\ entry.groups = {}
        /\ requested_permissions.secondary_gids # {}

\* C12: for every policy and every (current, requested, target), the
\* aggregate outcome of the verifiers built from the policy is allow if and
\* only if some rule's subjects match current and an allowed command of that
\* rule matches requested and the target; a policy whose rules do not match
\* yields deny.
C12_RuleBackedVerification ==
    \A i \in Calls("logger") : (trace[i].res = "Ok") <=> PolicyAllows

\* The rule of the scenarios: alice may run /bin/ls as any user.
ScenarioRule ==
    UserSpec(<<Username("alice")>>,
             <<CmdSpec(<<Username(ALL)>>, <<>>, <<>>, <<"/bin/ls">>)>>)

\* C15: an allowed command without the all-commands flag matches a target
\* exactly when the target's path is one of its paths; under the rule
\* granting alice /bin/ls as any user, alice's request is allowed for /bin/ls
\* and denied for any other path.
C15_CommandMatching ==
    /\ \A i \in DOMAIN rules : \A j \in DOMAIN rules[i].allowed_cmds :
          ~rules[i].allowed_cmds[j].allow_all_cmds =>
              rules[i].allowed_cmds[j].paths =
                  Range(sudoers.user_specs[i].cmd_specs[j].commands)
    /\ (sudoers.decodes /\ sudoers.user_specs = <<ScenarioRule>>
            /\ current_permissions = Alice) =>
          \A i \in Calls("logger") :
              (trace[i].res = "Ok") <=> (executable.path = "/bin/ls")

\* C16: a rule built from a subject list with the wildcard is relevant for
\* every current identity; an allowed command built from a command list with
\* the wildcard has allow_all_cmds; a rule for all subjects with an allowed
\* command for all commands and all target users allows the request, and the
\* verifiers built from a policy with such a user spec allow it.
C16_WildcardAbsorption ==
    /\ \A i \in DOMAIN rules :
          LET user_spec == sudoers.user_specs[i]
              rule == rules[i]
          IN  /\ HasWildcardSubject(user_spec) =>
                    \A p \in Permission : RuleIsRelevant(rule, p)
              /\ \A j \in DOMAIN rule.allowed_cmds :
                    /\ ALL \in Range(user_spec.cmd_specs[j].commands) =>
                          rule.allowed_cmds[j].allow_all_cmds
                    /\ ( /\ rule.allow_all_users \/ rule.allow_all_groups
                         /\ rule.allowed_cmds[j].allow_all_cmds
                         /\ rule.allowed_cmds[j].allow_all_users ) =>
                          Evaluate(rule, current_permissions,
                                   requested_permissions, executable)
    /\ (\E i \in DOMAIN sudoers.user_specs :
           LET user_spec == sudoers.user_specs[i]
           IN  /\ HasWildcardSubject(user_spec)
               /\ \E j \in DOMAIN user_spec.cmd_specs :
                     /\ ALL \in Range(user_spec.cmd_specs[j].commands)
                     /\ Username(ALL) \in Range(user_spec.cmd_specs[j].run_as_users)) =>
          \A i \in Calls("logger") : trace[i].res = "Ok"

\* A retrieved rule that names no uid and no gid and stands for everybody,
\* with a command entry for every path, while root asks for another identity.
C16_Witness ==
    /\ pc = "retrieved"
    /\ current_permissions.uid = 0
    /\ requested_permissions.uid # 0
    /\ executable.path = "/bin/rm"
    /\ \E i \in DOMAIN rules :
          /\ HasWildcardSubject(sudoers.user_specs[i])
          /\ rules[i].users = {} /\ rules[i].groups = {}
          /\ \E j \in DOMAIN rules[i].allowed_cmds :
                /\ rules[i].allowed_cmds[j].allow_all_cmds
                /\ rules[i].allowed_cmds[j].paths = {}
                /\ rules[i].allowed_cmds[j].allow_all_users

\* C17: a subject or run-as principal whose name cannot be resolved is
\* dropped: every rule built is the rule of the same user spec without those
\* entries, and the load does not fail unless the source is malformed.
C17_UnknownNameTolerance ==
    /\ \A i \in DOMAIN rules :
          rules[i] = FromUserspec(WithoutUnresolvable(sudoers.user_specs[i]),
                                  sudoers.user_aliases)
    /\ LoadPanicked => LoadPanics

\* The load completed on a user spec with an unknown name next to a known one.
C17_Witness ==
    /\ pc = "retrieved"
    /\ \E i \in DOMAIN rules :
          /\ HasUnresolvable(sudoers.user_specs[i])
          /\ rules[i].users # {} \/ rules[i].groups # {}

\* C18: if the source does not decode, or a subject list names an alias that
\* is not in the alias table, the load fails as a whole: no verifier list and
\* no ParsedSudoers is returned, nothing is verified or logged, and the runner
\* is never invoked.
C18_MalformedIsFatal ==
    LoadPanics =>
        /\ pc \in {"load", "retrieve", "exited"}
        /\ verifiers = <<>>
        /\ trace = <<>>
        /\ RunnerNeverInvoked
        /\ ProcessUntouched
        /\ relevant = NotAsked
        /\ pc = "exited" => rules = <<>>

\* The load panicked on the second user spec, after a first one that is fine.
C18_Witness ==
    /\ LoadPanicked
    /\ sudoers.decodes
    /\ Len(sudoers.user_specs) > 1
    /\ ~UserspecPanics(sudoers.user_specs[1], sudoers.user_aliases)
    /\ sudoers.user_specs[1].cmd_specs # <<>>

\* C19: retrieve_ids builds one Rule per user spec, in the order of the user
\* specs, and each Rule has one allowed command per command spec of its user
\* spec, in the order of the command specs.
C19_OrderPreserved ==
    /\ Len(rules) <= Len(sudoers.user_specs)
    /\ pc = "retrieved" => Len(rules) = Len(sudoers.user_specs)
    /\ \A i \in DOMAIN rules :
          LET user_spec == sudoers.user_specs[i]
          IN  /\ rules[i] = FromUserspec(user_spec, sudoers.user_aliases)
              /\ Len(rules[i].allowed_cmds) = Len(user_spec.cmd_specs)
              /\ \A j \in DOMAIN rules[i].allowed_cmds :
                    /\ rules[i].allowed_cmds[j].paths =
                          Range(user_spec.cmd_specs[j].commands) \ {ALL}
                    /\ rules[i].allowed_cmds[j].options =
                          user_spec.cmd_specs[j].options

\* Two different rules were retrieved, one of them with two different
\* allowed commands.
C19_Witness ==
    /\ pc = "retrieved"
    /\ Len(rules) = MaxUserSpecs
    /\ rules[1] # rules[Len(rules)]
    /\ \E i \in DOMAIN rules :
          /\ Len(rules[i].allowed_cmds) > 1
          /\ rules[i].allowed_cmds[1].paths # rules[i].allowed_cmds[2].paths

\* C20 as stated: whenever service returns RequestError::Verify, its cause is
\* NotAllowed, whatever errors the verifiers returned.
C20_UniformDenial ==
    ret.tag = "Verify" => ret.cause = "NotAllowed"

\* C20: whenever service returns RequestError::Verify, its cause is the error
\* the last verifier returned, and NotAllowed when the list is empty; so it is
\* NotAllowed when every verifier returned NotAllowed.
C20_LastErrorSurfaces ==
    ret.tag = "Verify" =>
        /\ ret.cause = IF verifiers = <<>> THEN "NotAllowed"
                       ELSE verifiers[Len(verifiers)]
        /\ ret.cause \in VerifyErrors
        /\ Range(verifiers) \subseteq {"NotAllowed"} => ret.cause = "NotAllowed"

\* Service returned Verify with a cause other than NotAllowed although the
\* first verifier returned NotAllowed.
C20_Witness ==
    /\ ret.tag = "Verify"
    /\ Len(verifiers) > 1
    /\ verifiers[1] = "NotAllowed"
    /\ ret.cause = "Malformed"

\* C21: as documented on Request.verifiers and on VERIFIERS, the executable
\* is run only if every verifier of the list passes, and with an empty list
\* it is run unconditionally.
C21_AndSemantics ==
    /\ Calls("runner") # {} =>
          \A i \in DOMAIN verifiers : verifiers[i] = "Ok"
    /\ (verifiers = <<>> /\ Finished) =>
          (Calls("runner") # {} \/ ret.tag = "Log")

\* C24: the logger is called with the executable, the current and the
\* requested permissions of the request and with the aggregate result the
\* allow/deny branch reads; the runner is invoked exactly in the runs in which
\* the logger was given Ok and returned Ok.
C24_AuditIntegrity ==
    /\ \A l \in Calls("logger") :
          /\ trace[l].exe = executable
          /\ trace[l].cur = current_permissions
          /\ trace[l].req = requested_permissions
          /\ trace[l].res = res
    /\ Calls("runner") # {} =>
          \E l \in Calls("logger") : trace[l].res = "Ok" /\ trace[l].ok
    /\ \A l \in Calls("logger") :
          (trace[l].res = "Ok" /\ trace[l].ok) =>
              IF pc = "check" THEN ENABLED Run ELSE Calls("runner") # {}

\* The runner was invoked after the logger was given an Ok that the second
\* verifier produced.
C24_Witness ==
    /\ Calls("runner") # {}
    /\ Len(verifiers) > 1
    /\ verifiers[1] # "Ok"
    /\ \E l \in Calls("logger") : trace[l].res = "Ok" /\ trace[l].ok

\* The verifier lists that are permutations of vs.
PermutationsOf(vs) ==
    {[i \in DOMAIN vs |-> vs[f[i]]] :
        f \in {g \in [DOMAIN vs -> DOMAIN vs] :
                  \A a, b \in DOMAIN vs : g[a] = g[b] => a = b}}

\* C25: for every verifier list and every permutation of it, service reaches
\* the same allow/deny verdict on the same request, and so the same decision
\* to invoke the runner.
C25_OrderIndependence ==
    (pc # "verify" \/ vi > Len(verifiers)) =>
        /\ res = FoldVerifiers(InitialVerifyResult, verifiers)
        /\ \A p \in PermutationsOf(verifiers) :
              /\ (FoldVerifiers(InitialVerifyResult, p) = "Ok") <=> (res = "Ok")
              /\ Calls("runner") # {} =>
                    FoldVerifiers(InitialVerifyResult, p) = "Ok"

\* The verdict is allow for a list whose verifiers disagree, so that its
\* permutations differ from it.
C25_Witness ==
    /\ pc = "check"
    /\ res = "Ok"
    /\ Len(verifiers) > 1
    /\ verifiers[1] = "Ok"
    /\ verifiers[Len(verifiers)] = "NotFound"
    /\ PermutationsOf(verifiers) # {verifiers}

\* C27: service calls every verifier of its list exactly once, in list
\* order, each with the same current and requested permissions and
\* executable, also after an earlier verifier returned Ok; the logger is
\* called only after the last verifier has returned.
C27_NoShortCircuit ==
    /\ Calls("verifier") = 1..(vi - 1)
    /\ \A i \in Calls("verifier") :
          /\ trace[i].idx = i
          /\ trace[i].result = verifiers[i]
          /\ trace[i].cur = current_permissions
          /\ trace[i].req = requested_permissions
          /\ trace[i].exe = executable
    /\ pc # "verify" => vi = Len(verifiers) + 1
    /\ \A l \in Calls("logger") :
          \A k \in DOMAIN verifiers :
              \E i \in Calls("verifier") : i < l /\ trace[i].idx = k

\* Every verifier was called although the first one had returned Ok.
C27_Witness ==
    /\ Calls("logger") # {}
    /\ Len(verifiers) = MaxVerifiers
    /\ verifiers[1] = "Ok"
    /\ Cardinality(Calls("verifier")) = MaxVerifiers

\* C28: when the verify outcome is deny and the logger fails, service
\* returns RequestError::Log; RequestError::Verify is returned only in runs
\* in which the logger returned Ok.
C28_ErrorPrecedence ==
    /\ \A l \in Calls("logger") :
          (trace[l].res # "Ok" /\ ~trace[l].ok) =>
              /\ Returned
              /\ ret.tag = "Log"
    /\ ret.tag = "Verify" => \E l \in Calls("logger") : trace[l].ok

\* A denied request whose logger failed.
C28_Witness ==
    /\ pc = "returned"
    /\ ret.tag = "Log"
    /\ res \in VerifyErrors
    /\ \E l \in Calls("logger") : ~trace[l].ok

\* The uids and the gids the members of an alias resolve to.
AliasUids(members) ==
    UNION {get_uid_from_username(members[k].name) :
              k \in {m \in DOMAIN members : /\ members[m].tag = "username"
                                            /\ members[m].name # ALL}}
AliasGids(members) ==
    UNION {get_gid_from_groupname(members[k].name) :
              k \in {m \in DOMAIN members : /\ members[m].tag = "usergroup"
                                            /\ members[m].name # ALL}}

\* C22: when a subject list names an alias, every member of the alias
\* contributes to the rule: a resolvable username its uid to the rule's
\* users, a resolvable usergroup its gid to the rule's groups; so a current
\* identity that is any member of the alias is subject-relevant.
C22_AliasExpansion ==
    \A i \in DOMAIN rules :
        \A k \in DOMAIN sudoers.user_specs[i].user_list :
            LET user == sudoers.user_specs[i].user_list[k]
            IN  user.tag = "useralias" =>
                    LET members == sudoers.user_aliases[user.name]
                    IN  /\ AliasUids(members) \subseteq rules[i].users
                        /\ AliasGids(members) \subseteq rules[i].groups
                        /\ \A p \in Permission :
                              ( \/ p.uid \in AliasUids(members)
                                \/ p.primary_gid \in AliasGids(members)
                                \/ p.secondary_gids \cap AliasGids(members) # {} )
                                  => RuleIsRelevant(rules[i], p)

\* C23: for every command spec, the AllowedCmd built has allow_all_groups
\* exactly when the run-as-groups list holds the wildcard and allow_all_users
\* exactly when the run-as-users list holds it; a wildcard among the run-as
\* groups does not set allow_all_users.
C23_WildcardPerSlot ==
    \A i \in DOMAIN rules : \A j \in DOMAIN rules[i].allowed_cmds :
        LET cmd_spec == sudoers.user_specs[i].cmd_specs[j]
            allowed_cmd == rules[i].allowed_cmds[j]
        IN  /\ allowed_cmd.allow_all_groups <=>
                  Usergroup(ALL) \in Range(cmd_spec.run_as_groups)
            /\ allowed_cmd.allow_all_users <=>
                  Username(ALL) \in Range(cmd_spec.run_as_users)

\* C29: for every Options value the front-end can build, also one with no
\* secondary group, the kernel's permission and executable factories read the
\* command line of to_kernel_commandline successfully and get the same uid,
\* primary gid, secondary gid set, binary path and argument vector.
C29_RoundTrip ==
    /\ parsed_permission.parsed =>
          /\ parsed_permission.ok
          /\ parsed_permission.value =
                [uid |-> options.uid,
                 primary_gid |-> options.primary_gid,
                 secondary_gids |-> options.secondary_gids]
    /\ parsed_executable.parsed =>
          /\ parsed_executable.ok
          /\ parsed_executable.value =
                [path |-> options.binary, args |-> options.args]

\* C30: if every verifier, the logger and every system call returns, each
\* call of service ends in exactly one outcome: a Verify, Log or Run error
\* returned to main, or the image replaced by execve; the runner is invoked
\* at most once on the way.
C30_Termination ==
    /\ <>[](pc \in {"exited", "replaced"})
    /\ [](Cardinality(Calls("runner")) <= 1)
    /\ [](Returned =>
            /\ ret.tag \in {"Verify", "Log", "Run"}
            /\ image = "sus-kernel"
            /\ \A i \in Calls("execve") : ~trace[i].ok)
    /\ [](pc = "replaced" =>
            /\ ret = NoReturn
            /\ image = executable.path)

\* Service returned a Run error after the one invocation of the runner.
C30_Witness ==
    /\ pc = "exited"
    /\ ret.tag = "Run"
    /\ Cardinality(Calls("runner")) = 1
    /\ Len(verifiers) = MaxVerifiers

\* What an invocation does when it runs alone, as a function of its own
\* Request and of what its own logger and system calls returned: the verdict
\* is the fold over its own verifiers, the error follows from the verdict and
\* from its own failed call, and its identity from its own successful calls.
RunsAsAlone(inv) ==
    LET t == inv.trace
        req == inv.requested_permissions
        cur == inv.current_permissions
        verdict == FoldVerifiers(InitialVerifyResult, inv.verifiers)
        done(op) == {i \in DOMAIN t : t[i].op = op /\ t[i].ok}
        failed(op) == {i \in DOMAIN t : t[i].op = op /\ ~t[i].ok}
        lines == {i \in DOMAIN log_file : log_file[i].pid = inv.pid}
        error == IF failed("logger") # {} THEN [tag |-> "Log", cause |-> "LogError"]
                 ELSE IF verdict # "Ok" THEN [tag |-> "Verify", cause |-> verdict]
                 ELSE IF failed("setgroups") # {}
                      THEN [tag |-> "Run", cause |-> "SetSecondaryGID"]
                 ELSE IF failed("setgid") # {}
                      THEN [tag |-> "Run", cause |-> "SetPrimaryGID"]
                 ELSE IF failed("setuid") # {}
                      THEN [tag |-> "Run", cause |-> "SetUID"]
                 ELSE [tag |-> "Run", cause |-> "Execute"]
    IN  /\ inv.res = FoldVerifiers(InitialVerifyResult,
                                   SubSeq(inv.verifiers, 1, inv.vi - 1))
        /\ inv.pc # "verify" => inv.res = verdict
        /\ \A i \in DOMAIN t :
              /\ t[i].op = "verifier" =>
                    /\ t[i].result = inv.verifiers[t[i].idx]
                    /\ t[i].cur = cur /\ t[i].req = req /\ t[i].exe = inv.executable
              /\ t[i].op = "logger" =>
                    /\ t[i].res = verdict
                    /\ t[i].cur = cur /\ t[i].req = req /\ t[i].exe = inv.executable
              /\ t[i].op = "runner" =>
                    /\ verdict = "Ok"
                    /\ t[i].perm = req /\ t[i].exe = inv.executable
              /\ t[i].op = "setgroups" => t[i].groups \in NewSgidVecs(req)
              /\ t[i].op = "setgid" => t[i].gid = req.primary_gid
              /\ t[i].op = "setuid" => t[i].uid = req.uid
              /\ t[i].op = "execve" =>
                    /\ t[i].path = inv.executable.path
                    /\ t[i].args = inv.executable.args
        /\ inv.pc \in {"returned", "exited"} => inv.ret = error
        /\ inv.pc \notin {"returned", "exited"} => inv.ret = NoReturn
        /\ inv.ident =
              [groups |-> IF done("setgroups") # {}
                          THEN NewSgidSet(req) ELSE cur.secondary_gids,
               gid |-> IF done("setgid") # {} THEN req.primary_gid ELSE cur.primary_gid,
               uid |-> IF done("setuid") # {} THEN req.uid ELSE cur.uid]
        /\ inv.image = IF done("execve") # {} THEN inv.executable.path ELSE "sus-kernel"
        /\ Cardinality(lines) = Cardinality(done("logger"))
        /\ \A i \in lines :
              log_file[i] = [pid |-> inv.pid, exe |-> inv.executable, cur |-> cur,
                             req |-> req, res |-> verdict]

\* C26: with two kernel invocations interleaved in every way, the verdict,
\* the returned error and the identity transition of each are what its own
\* Request and its own calls' results give when it runs alone; the log file,
\* the one thing both reach, holds for each its own line and steers neither.
C26_InvocationIndependence ==
    /\ RunsAsAlone(Running)
    /\ RunsAsAlone(peer)

\* Both invocations have ended after interleaved steps, one allowed and
\* replaced by its executable, the other denied, each with its line in the
\* log file and the denied one's line first.
C26_Witness ==
    /\ peer.pid # 0
    /\ pc = "replaced"
    /\ res = "Ok"
    /\ peer.pc = "exited"
    /\ peer.ret = [tag |-> "Verify", cause |-> "Malformed"]
    /\ Len(log_file) = 2
    /\ log_file[1].pid = peer.pid
    /\ log_file[2].pid = pid
    /\ trace[1].op = "verifier"
    /\ Len(verifiers) = 2

====
